---- MODULE Spec2Model ----
(***************************************************************************)
(* demo.ipynb: retrieval-augmented question answering, semantic response  *)
(* caching and chat memory over Redis, composed with LangChain.            *)
(*                                                                         *)
(* The state is the notebook kernel's namespace (docs, splits, vectordb,   *)
(* question, qa, langchain.llm_cache, chat, ...), the files the load cell  *)
(* writes, and the Redis databases the library clients talk to.  Every     *)
(* code cell is one action.  Cells run top to bottom (pc is the next cell  *)
(* not yet run); a cell that has already run may be executed again, as a   *)
(* notebook allows.  A cell that raises leaves pc where it is.             *)
(***************************************************************************)
EXTENDS Naturals, Sequences, FiniteSets

VARIABLES
    pc,          \* index in Cells of the next cell not yet run
    reruns,      \* how many times an already-run cell was executed again
    REDIS_URL,   \* the value .env gives REDIS_URL (README.md, Setup)
    radiusDist,  \* embedding distance (1/100) between the two radius prompts
    origin,      \* for each page, whether its URL still serves it
    store,       \* Redis databases: url -> [index, cache, chat]
    files,       \* local files written by download_file
    docs, splits, embedding, vectordb, question, results,
    QA_CHAIN_PROMPT, llm, qa, result, llm_cache, message_history, chat, reply,
    llmCalls,    \* number of requests made to the remote LLM
    genCalls,    \* number of LLM-layer generate calls (cache hit or not)
    last,        \* what the most recent qa / chat.predict call did
    answered,    \* the qa calls made so far
    sent,        \* the prompts formatted by the chat without memory so far
    turns,       \* exchanges made through the memory chat since its setup
    loaded,      \* every document the load cell has loaded
    written,     \* every chunk Redis.from_documents has written
    phase        \* pipeline steps in order of first occurrence

vars == <<pc, reruns, REDIS_URL, radiusDist, origin, store, files, docs, splits,
          embedding, vectordb, question, results, QA_CHAIN_PROMPT, llm, qa,
          result, llm_cache, message_history, chat, reply, llmCalls, genCalls,
          last, answered, sent, turns,
          loaded, written, phase>>

\* Bound of the model: executions of cells that have already run.
MaxReruns == 1

-----------------------------------------------------------------------------
(* Configuration values the notebook passes to the libraries.              *)

LocalUrl == "redis://localhost:6379"
RemoteUrl == "redis://db.example:6379"
Urls == {LocalUrl, RemoteUrl}

\* RedisSemanticCache(redis_url="redis://localhost:6379", ...)
CacheUrl == LocalUrl
\* score_threshold=0.1, in hundredths
ScoreThreshold == 10
\* RedisChatMessageHistory(key_prefix=..., session_id=...): no url argument,
\* so the client's default "redis://localhost:6379/0"
HistoryUrl == LocalUrl
\* vectordb.as_retriever(): the retriever's default number of documents
RetrieverK == 4
\* similarity_search_with_score(question, k=3), max_marginal_relevance_search(question, k=3, ...)
SearchK == 3
\* the library's default number of candidates fetched before MMR re-ranking
FetchK == 20

AggsPath == "aggregations.md"
QueryPath == "query_syntax.md"
AggsBody == "aggregations"
QueryBody == "query_syntax"
ErrorBody == "error response body"
Absent == "absent"

\* VertexAI(model_name='gemini-pro', max_output_tokens=512, temperature=...)
LlmQA == [model |-> "gemini-pro", max_output_tokens |-> 512, temperature |-> 3]
LlmChat == [model |-> "gemini-pro", max_output_tokens |-> 512, temperature |-> 2]
NoLlm == [model |-> "undefined", max_output_tokens |-> 0, temperature |-> 0]

QDocId == "How can I load the redis key name (Document ID) and filter results based on that field?"
QPoint == "How do I get documents withing a certain radius from a point?"
QCoordinate == "How do I get documents withing a certain radius from a coordinate?"
Undefined == "undefined"

\* The code cells of the notebook, top to bottom.
Cells == <<
    [kind |-> "load",        arg |-> ""],
    [kind |-> "split",       arg |-> ""],
    [kind |-> "embedding",   arg |-> ""],
    [kind |-> "store",       arg |-> ""],
    [kind |-> "question",    arg |-> QDocId],
    [kind |-> "search",      arg |-> ""],
    [kind |-> "mmr",         arg |-> ""],
    [kind |-> "template",    arg |-> ""],
    [kind |-> "makeqa",      arg |-> ""],
    [kind |-> "question",    arg |-> QDocId],
    [kind |-> "qa",          arg |-> ""],
    [kind |-> "cache",       arg |-> ""],
    [kind |-> "question",    arg |-> QPoint],
    [kind |-> "qa",          arg |-> ""],
    [kind |-> "question",    arg |-> QCoordinate],
    [kind |-> "qa",          arg |-> ""],
    [kind |-> "nocache",     arg |-> ""],
    [kind |-> "chat",        arg |-> ""],
    [kind |-> "predict",     arg |-> "Hi, my name is Eli. I like eating noodles and I work at Redis. What is your name?"],
    [kind |-> "predict",     arg |-> "Who won the World Cup in 2018?"],
    [kind |-> "predict",     arg |-> "What's my name?"],
    [kind |-> "memorychat",  arg |-> ""],
    [kind |-> "predict",     arg |-> "Hi, my name is Adam. I have 3 kids and I like gardening. What is your name?"],
    [kind |-> "predict",     arg |-> "How long was the last Harry Potter book?"],
    [kind |-> "predict",     arg |-> "What's the name of their school?"],
    [kind |-> "predict",     arg |-> "What train platform was the train on?"],
    [kind |-> "predict",     arg |-> "Do you remember my name?"] >>

NCells == Len(Cells)

-----------------------------------------------------------------------------
(* Data preparation: download, load, split.                                *)

\* What requests.get can give for a URL: a response, or an exception (no
\* response).  While the URL serves the page the response is 200 with the
\* page; once the page has moved it is an error status with an error body.
Responses(body) ==
    { IF origin[body] = "serving"
      THEN [raised |-> FALSE, status |-> 200, content |-> body]
      ELSE [raised |-> FALSE, status |-> 404, content |-> ErrorBody],
      [raised |-> TRUE, status |-> 0, content |-> ""] }

\* download_file(url, filename): r = requests.get(url); open(filename,'wb').write(r.content)
\* The status of the response is not looked at.
download_file(fs, filename, r) == [fs EXCEPT ![filename] = r.content]

\* UnstructuredMarkdownLoader(path).load(): one document with the file's text.
LoadMarkdown(fs, path) == << [source |-> path, content |-> fs[path]] >>

\* Number of chunks SpacyTextSplitter(chunk_size=750, chunk_overlap=50) cuts a
\* text into: the documentation pages are longer than one chunk, a short
\* body is a single chunk.
NumChunks(content) == IF content \in {AggsBody, QueryBody} THEN 2 ELSE 1

SplitOne(doc) ==
    [i \in 1..NumChunks(doc.content) |->
        [source |-> doc.source, content |-> doc.content, part |-> i]]

RECURSIVE split_documents(_)
\* text_splitter.split_documents(docs): the chunks of every document, in order.
split_documents(ds) ==
    IF ds = <<>> THEN <<>>
    ELSE SplitOne(Head(ds)) \o split_documents(Tail(ds))

-----------------------------------------------------------------------------
(* Embeddings and the vector index.                                        *)

Topic(content) ==
    IF content = AggsBody THEN 1 ELSE IF content = QueryBody THEN 2 ELSE 3

QTopic(q) == IF q = QDocId THEN 1 ELSE 2

\* Distance (1/100) between the embedding of question q and of chunk c, as
\* the embeddings model textembedding-gecko gives it: small for a chunk of
\* the page the question is about.
ChunkDist(q, c) ==
    (IF Topic(c.content) = QTopic(q) THEN 20
     ELSE IF Topic(c.content) = 3 THEN 80 ELSE 50) + 5 * c.part

\* Similarity (1/100) of two chunks.
ChunkSim(a, b) ==
    IF a.content = b.content /\ a.part = b.part THEN 100
    ELSE IF a.content = b.content THEN 60 ELSE 10

RemoveAt(s, i) == SubSeq(s, 1, i - 1) \o SubSeq(s, i + 1, Len(s))

\* The position of the chunk of cands nearest to q (the first of equals).
Nearest(cands, q) ==
    CHOOSE i \in 1..Len(cands) :
        \A j \in 1..Len(cands) :
            \/ ChunkDist(q, cands[i]) < ChunkDist(q, cands[j])
            \/ ChunkDist(q, cands[i]) = ChunkDist(q, cands[j]) /\ i <= j

RECURSIVE similarity_search(_, _, _)
\* vectordb.similarity_search(q, k): the k chunks of the index nearest to q,
\* nearest first.
similarity_search(index, q, k) ==
    IF k = 0 \/ index = <<>> THEN <<>>
    ELSE LET i == Nearest(index, q)
         IN  <<index[i]>> \o similarity_search(RemoveAt(index, i), q, k - 1)

\* similarity_search_with_score: each chunk with its distance.
similarity_search_with_score(index, q, k) ==
    LET found == similarity_search(index, q, k)
    IN  [i \in 1..Len(found) |-> [doc |-> found[i], score |-> ChunkDist(q, found[i])]]

MaxSim(c, chosen) ==
    IF chosen = <<>> THEN 0
    ELSE CHOOSE m \in {ChunkSim(c, chosen[j]) : j \in 1..Len(chosen)} :
            \A j \in 1..Len(chosen) : ChunkSim(c, chosen[j]) <= m

\* MMR score of a candidate with lambda = 0.5, scaled by 2 and shifted to
\* stay a natural number: relevance to the query minus redundancy.
MmrScore(c, q, chosen) == (100 + (100 - ChunkDist(q, c))) - MaxSim(c, chosen)

RECURSIVE MmrPick(_, _, _, _)
MmrPick(cands, q, chosen, k) ==
    IF k = 0 \/ cands = <<>> THEN chosen
    ELSE LET i == CHOOSE i \in 1..Len(cands) :
                    \A j \in 1..Len(cands) :
                        \/ MmrScore(cands[i], q, chosen) > MmrScore(cands[j], q, chosen)
                        \/ MmrScore(cands[i], q, chosen) = MmrScore(cands[j], q, chosen) /\ i <= j
         IN  MmrPick(RemoveAt(cands, i), q, Append(chosen, cands[i]), k - 1)

\* vectordb.max_marginal_relevance_search(q, k=3, ...): the FetchK nearest
\* chunks re-ranked for relevance and diversity.
max_marginal_relevance_search(index, q, k) ==
    MmrPick(similarity_search(index, q, FetchK), q, <<>>, k)

\* Redis.from_documents(documents=splits, embedding=embedding, index_name="redis-vs-docs"):
\* every split is written under a fresh key of the index in the database
\* REDIS_URL names; what the index already holds stays.
from_documents(db, url, chunks) ==
    [db EXCEPT ![url].index = @ \o chunks]

\* A retriever that returns nothing, so that the chain generates from an
\* empty context.
RetrieveNothing(index, q) == <<>>

\* qa's retriever, vectordb.as_retriever(): similarity search, default k.
Retrieve(index, q) == similarity_search(index, q, RetrieverK)

-----------------------------------------------------------------------------
(* Prompts.  A formatted prompt is the template's name with the values     *)
(* put in its placeholders.                                                *)

Prompt(t, ctx, q, hist, h) ==
    [template |-> t, context |-> ctx, question |-> q, history |-> hist, human_input |-> h]

\* QA_CHAIN_PROMPT = PromptTemplate(input_variables=["context", "question"], template=QA_TEMPLATE)
QaChainPromptFormat(ctx, q) == Prompt("QA_TEMPLATE", ctx, q, <<>>, "")

\* The prompt of a "stuff" chain built without a prompt argument: the
\* library's own question-answering template.
StuffDefaultFormat(ctx, q) == Prompt("stuff default", ctx, q, <<>>, "")

\* RetrievalQA.from_chain_type(llm=llm, chain_type="stuff",
\*     retriever=vectordb.as_retriever(), return_source_documents=True)
\* No chain_type_kwargs: the chain formats the library's default template.
QaPromptFormat(ctx, q) == StuffDefaultFormat(ctx, q)

\* The template of the chat without memory: {human_input} only.
ChatPromptFormat(h) == Prompt("chat", <<>>, "", <<>>, h)

\* The template of the chat with memory: {history} and {human_input}.
MemoryChatPromptFormat(hist, h) == Prompt("chat with history", <<>>, "", hist, h)

-----------------------------------------------------------------------------
(* The LLM layer: langchain.llm_cache and the remote model.                *)

NoCache == "None"

\* Distance (1/100) between the embeddings of two prompts: 0 for the same
\* text, radiusDist for the "point" and the "coordinate" question over the
\* same context, far otherwise.
PromptDist(p1, p2) ==
    IF p1 = p2 THEN 0
    ELSE IF /\ p1.template = p2.template
            /\ p1.context = p2.context
            /\ p1.history = p2.history
            /\ p1.human_input = p2.human_input
            /\ {p1.question, p2.question} = {QPoint, QCoordinate}
         THEN radiusDist
         ELSE 50

\* A cache keyed by the exact prompt rather than by its meaning.
lookupExact(cache, llmString, p) ==
    {e \in cache : e.llm = llmString /\ e.prompt = p}

\* RedisSemanticCache.lookup(prompt, llm_string): the nearest entry of the
\* index of this llm_string, if its distance is within score_threshold.
lookup(cache, llmString, p) ==
    LET within == {e \in cache : /\ e.llm = llmString
                                 /\ PromptDist(e.prompt, p) <= ScoreThreshold}
    IN  {e \in within : \A f \in within : PromptDist(e.prompt, p) <= PromptDist(f.prompt, p)}

\* An update that stores nothing.
updateNothing(cache, llmString, p, answer) == cache

\* RedisSemanticCache.update(prompt, llm_string, return_val)
update(cache, llmString, p, answer) ==
    cache \cup {[llm |-> llmString, prompt |-> p, answer |-> answer]}

\* One call of the LLM object with prompt p.  With langchain.llm_cache unset
\* the remote model is asked.  With it set, a cache hit answers without the
\* remote model; on a miss the remote model is asked and the answer cached.
\* fresh is the remote model's answer, were it asked.
Generate(db, cacheUrl, llmString, p, fresh) ==
    IF cacheUrl = NoCache
    THEN {[answer |-> fresh, called |-> TRUE, db |-> db]}
    ELSE LET found == lookup(db[cacheUrl].cache, llmString, p)
         IN  IF found # {}
             THEN {[answer |-> e.answer, called |-> FALSE, db |-> db] : e \in found}
             ELSE {[answer |-> fresh, called |-> TRUE,
                    db |-> [db EXCEPT ![cacheUrl].cache = update(@, llmString, p, fresh)]]}

-----------------------------------------------------------------------------
(* Chat memory: RedisChatMessageHistory keeps the messages of a session in *)
(* a Redis list.                                                           *)

HumanMessage(h) == [type |-> "human", text |-> h, answer |-> 0]
AIMessage(a) == [type |-> "ai", text |-> "", answer |-> a]

Reverse(s) == [i \in 1..Len(s) |-> s[Len(s) + 1 - i]]

\* add_message: LPUSH
add_message(list, m) == <<m>> \o list

\* The list as Redis returns it, newest first.
messagesNewestFirst(list) == list

\* messages: LRANGE 0 -1, reversed, so oldest first
messages(list) == Reverse(list)

\* message_history.clear(): DEL
clear(list) == <<>>

\* ConversationBufferMemory.load_memory_variables: the stored messages
load_memory_variables(list) == messages(list)

\* ConversationBufferMemory.save_context: the input, then the output
save_context(list, h, a) == add_message(add_message(list, HumanMessage(h)), AIMessage(a))

-----------------------------------------------------------------------------
(* The state before the first cell runs.                                   *)

Range(s) == {s[i] : i \in 1..Len(s)}

EmptyDb == [index |-> <<>>, cache |-> {}, chat |-> <<>>]

NoPrompt == Prompt("", <<>>, "", <<>>, "")

\* What an earlier, complete run of the notebook with the same REDIS_URL
\* has left in Redis: the chunks of both pages in the index, the prompts of
\* the two radius questions in the semantic cache (the second only if it
\* missed), and the five exchanges of the memory chat.  Answers of that
\* run are numbered 0.
EarlierIndex ==
    split_documents(<<[source |-> AggsPath, content |-> AggsBody],
                      [source |-> QueryPath, content |-> QueryBody]>>)

EarlierCache(d) ==
    {[llm |-> LlmQA, prompt |-> QaPromptFormat(Retrieve(EarlierIndex, QPoint), QPoint), answer |-> 0]}
    \cup (IF d <= ScoreThreshold THEN {}
          ELSE {[llm |-> LlmQA,
                 prompt |-> QaPromptFormat(Retrieve(EarlierIndex, QCoordinate), QCoordinate),
                 answer |-> 0]})

\* The inputs of the predict cells that follow the memory chat's setup cell.
MemoryChatInputs ==
    LET m == CHOOSE c \in 1..NCells : Cells[c].kind = "memorychat"
    IN  [i \in 1..(NCells - m) |-> Cells[m + i].arg]

RECURSIVE SaveAll(_, _)
\* The list after the exchanges with inputs hs, in order, are saved to it.
SaveAll(list, hs) ==
    IF hs = <<>> THEN list
    ELSE SaveAll(save_context(list, Head(hs), 0), Tail(hs))

\* The setup cell clears the list once; each predict cell then saves its
\* input and its reply.
EarlierChat == SaveAll(clear(<<>>), MemoryChatInputs)

EarlierStore(url, d) ==
    [u \in Urls |->
        [index |-> IF u = url THEN EarlierIndex ELSE <<>>,
         cache |-> IF u = CacheUrl THEN EarlierCache(d) ELSE {},
         chat  |-> IF u = HistoryUrl THEN EarlierChat ELSE <<>>]]

Init ==
    /\ pc = 1
    /\ reruns = 0
    /\ REDIS_URL \in Urls
    /\ radiusDist \in {ScoreThreshold, ScoreThreshold + 1}
    /\ origin \in [{AggsBody, QueryBody} -> {"serving", "moved"}]
    /\ \E earlier \in BOOLEAN :
          /\ store = IF earlier THEN EarlierStore(REDIS_URL, radiusDist)
                     ELSE [u \in Urls |-> EmptyDb]
          /\ files = IF earlier
                     THEN [f \in {AggsPath, QueryPath} |->
                              IF f = AggsPath THEN AggsBody ELSE QueryBody]
                     ELSE [f \in {AggsPath, QueryPath} |-> Absent]
    /\ docs = <<>>
    /\ splits = <<>>
    /\ embedding = Undefined
    /\ vectordb = Undefined
    /\ question = Undefined
    /\ results = <<>>
    /\ QA_CHAIN_PROMPT = Undefined
    /\ llm = NoLlm
    /\ qa = [defined |-> FALSE, llm |-> NoLlm, retriever |-> Undefined]
    /\ result = [result |-> 0, source_documents |-> <<>>]
    /\ llm_cache = NoCache
    /\ message_history = Undefined
    /\ chat = [defined |-> FALSE, llm |-> NoLlm, memory |-> FALSE]
    /\ reply = 0
    /\ llmCalls = 0
    /\ genCalls = 0
    /\ last = [op |-> "none", prompt |-> NoPrompt, retrieved |-> <<>>,
               called |-> FALSE, answer |-> 0]
    /\ answered = {}
    /\ sent = {}
    /\ turns = <<>>
    /\ loaded = {}
    /\ written = {}
    /\ phase = <<>>

-----------------------------------------------------------------------------
(* Running cells.                                                          *)

\* Cell c is run: either it is the next cell of the top-to-bottom run, which
\* moves on when the cell ends without an exception, or it has run before
\* and is executed again.
Run(c, ok) ==
    \/ /\ c = pc
       /\ pc' = IF ok THEN pc + 1 ELSE pc
       /\ UNCHANGED reruns
    \/ /\ c < pc
       /\ reruns < MaxReruns
       /\ reruns' = reruns + 1
       /\ UNCHANGED pc

Mark(step) == IF step \in Range(phase) THEN phase ELSE Append(phase, step)

environment == <<REDIS_URL, radiusDist, origin>>
preparation == <<files, docs, splits, embedding, vectordb, loaded, written>>
answering == <<question, results, QA_CHAIN_PROMPT, qa, result>>
chatting == <<message_history, chat, reply, turns>>
calls == <<llmCalls, genCalls, last, answered, sent>>

\* Load Documents cell.
LoadDocuments(c) ==
    /\ Cells[c].kind = "load"
    /\ \E r1 \in Responses(AggsBody), r2 \in Responses(QueryBody) :
          IF r1.raised
          THEN /\ Run(c, FALSE)
               /\ UNCHANGED <<files, docs, loaded, phase>>
          ELSE LET f1 == download_file(files, AggsPath, r1)
                   d1 == LoadMarkdown(f1, AggsPath)
               IN  IF r2.raised
                   THEN /\ Run(c, FALSE)
                        /\ files' = f1
                        /\ docs' = d1
                        /\ loaded' = loaded \cup Range(d1)
                        /\ phase' = Mark("load")
                   ELSE LET f2 == download_file(f1, QueryPath, r2)
                            d2 == d1 \o LoadMarkdown(f2, QueryPath)
                        IN  /\ Run(c, TRUE)
                            /\ files' = f2
                            /\ docs' = d2
                            /\ loaded' = loaded \cup Range(d2)
                            /\ phase' = Mark("load")
    /\ UNCHANGED <<environment, store, splits, embedding, vectordb, written,
                   answering, llm, llm_cache, chatting, calls>>

\* Split Documents cell.
SplitDocuments(c) ==
    /\ Cells[c].kind = "split"
    /\ Run(c, TRUE)
    /\ splits' = split_documents(docs)
    /\ phase' = Mark("split")
    /\ UNCHANGED <<environment, store, files, docs, embedding, vectordb, loaded,
                   written, answering, llm, llm_cache, chatting, calls>>

\* embedding = VertexAIEmbeddings(model_name="textembedding-gecko")
CreateEmbedding(c) ==
    /\ Cells[c].kind = "embedding"
    /\ Run(c, TRUE)
    /\ embedding' = "textembedding-gecko"
    /\ phase' = Mark("embed")
    /\ UNCHANGED <<environment, store, files, docs, splits, vectordb, loaded,
                   written, answering, llm, llm_cache, chatting, calls>>

\* vectordb = Redis.from_documents(documents=splits, embedding=embedding, index_name="redis-vs-docs")
\* No redis_url argument: the library takes it from the environment.
FromDocuments(c) ==
    /\ Cells[c].kind = "store"
    /\ Run(c, TRUE)
    /\ store' = from_documents(store, REDIS_URL, splits)
    /\ vectordb' = REDIS_URL
    /\ written' = written \cup Range(splits)
    /\ phase' = Mark("store")
    /\ UNCHANGED <<environment, files, docs, splits, embedding, loaded,
                   answering, llm, llm_cache, chatting, calls>>

\* question = "..."
SetQuestion(c) ==
    /\ Cells[c].kind = "question"
    /\ Run(c, TRUE)
    /\ question' = Cells[c].arg
    /\ UNCHANGED <<environment, store, preparation, results, QA_CHAIN_PROMPT, qa,
                   result, llm, llm_cache, chatting, calls, phase>>

\* results = vectordb.similarity_search_with_score(question, k=3)
SimilaritySearch(c) ==
    /\ Cells[c].kind = "search"
    /\ Run(c, TRUE)
    /\ results' = similarity_search_with_score(store[vectordb].index, question, SearchK)
    /\ phase' = Mark("query")
    /\ UNCHANGED <<environment, store, preparation, question, QA_CHAIN_PROMPT, qa,
                   result, llm, llm_cache, chatting, calls>>

\* results = vectordb.max_marginal_relevance_search(question, k=3, top_k=5, threshold=0.5)
MmrSearch(c) ==
    /\ Cells[c].kind = "mmr"
    /\ Run(c, TRUE)
    /\ results' = max_marginal_relevance_search(store[vectordb].index, question, SearchK)
    /\ phase' = Mark("query")
    /\ UNCHANGED <<environment, store, preparation, question, QA_CHAIN_PROMPT, qa,
                   result, llm, llm_cache, chatting, calls>>

\* QA_TEMPLATE = ...; QA_CHAIN_PROMPT = PromptTemplate(...)
DefineTemplate(c) ==
    /\ Cells[c].kind = "template"
    /\ Run(c, TRUE)
    /\ QA_CHAIN_PROMPT' = "QA_TEMPLATE"
    /\ UNCHANGED <<environment, store, preparation, question, results, qa,
                   result, llm, llm_cache, chatting, calls, phase>>

\* llm = VertexAI(..., temperature=0.3); qa = RetrievalQA.from_chain_type(...)
MakeQA(c) ==
    /\ Cells[c].kind = "makeqa"
    /\ Run(c, TRUE)
    /\ llm' = LlmQA
    /\ qa' = [defined |-> TRUE, llm |-> LlmQA, retriever |-> vectordb]
    /\ UNCHANGED <<environment, store, preparation, question, results,
                   QA_CHAIN_PROMPT, result, llm_cache, chatting, calls, phase>>

\* result = qa({"query": question}): retrieve, format the prompt, generate.
QaCall(c) ==
    /\ Cells[c].kind = "qa"
    /\ Run(c, TRUE)
    /\ LET ctx == Retrieve(store[qa.retriever].index, question)
           p == QaPromptFormat(ctx, question)
       IN  \E o \in Generate(store, llm_cache, qa.llm, p, llmCalls + 1) :
              /\ result' = [result |-> o.answer, source_documents |-> ctx]
              /\ store' = o.db
              /\ llmCalls' = IF o.called THEN llmCalls + 1 ELSE llmCalls
              /\ genCalls' = genCalls + 1
              /\ last' = [op |-> "qa", prompt |-> p, retrieved |-> ctx,
                          called |-> o.called, answer |-> o.answer]
              /\ answered' = answered \cup
                    {[n |-> genCalls + 1, question |-> question,
                      cached |-> llm_cache # NoCache, called |-> o.called,
                      indexed |-> Len(store[qa.retriever].index)]}
              /\ phase' = IF o.called
                          THEN LET ph == Mark("query")
                               IN IF "generate" \in Range(ph) THEN ph ELSE Append(ph, "generate")
                          ELSE Mark("query")
    /\ UNCHANGED <<environment, preparation, question, results, QA_CHAIN_PROMPT,
                   qa, llm, llm_cache, chatting, sent>>

\* langchain.llm_cache = RedisSemanticCache(embedding=embedding,
\*     redis_url="redis://localhost:6379", score_threshold=0.1)
EnableCache(c) ==
    /\ Cells[c].kind = "cache"
    /\ Run(c, TRUE)
    /\ llm_cache' = CacheUrl
    /\ UNCHANGED <<environment, store, preparation, answering, llm, chatting,
                   calls, phase>>

\* langchain.llm_cache = None
ClearCache(c) ==
    /\ Cells[c].kind = "nocache"
    /\ Run(c, TRUE)
    /\ llm_cache' = NoCache
    /\ UNCHANGED <<environment, store, preparation, answering, llm, chatting,
                   calls, phase>>

\* llm = VertexAI(..., temperature=0.2); chat = LLMChain(llm=llm, prompt=prompt, verbose=True)
MakeChat(c) ==
    /\ Cells[c].kind = "chat"
    /\ Run(c, TRUE)
    /\ llm' = LlmChat
    /\ chat' = [defined |-> TRUE, llm |-> LlmChat, memory |-> FALSE]
    /\ UNCHANGED <<environment, store, preparation, answering, llm_cache,
                   message_history, reply, turns, calls, phase>>

\* llm = VertexAI(..., temperature=0.3); message_history = RedisChatMessageHistory(...);
\* message_history.clear(); memory = ConversationBufferMemory(...);
\* chat = LLMChain(llm=llm, prompt=prompt, verbose=True, memory=memory)
MakeMemoryChat(c) ==
    /\ Cells[c].kind = "memorychat"
    /\ Run(c, TRUE)
    /\ llm' = LlmQA
    /\ message_history' = HistoryUrl
    /\ store' = [store EXCEPT ![HistoryUrl].chat = clear(@)]
    /\ chat' = [defined |-> TRUE, llm |-> LlmQA, memory |-> TRUE]
    /\ turns' = <<>>
    /\ UNCHANGED <<environment, preparation, answering, llm_cache, reply,
                   calls, phase>>

\* The prompt chat.predict(human_input=h) formats.
ChatPrompt(ch, db, h) ==
    IF ch.memory
    THEN MemoryChatPromptFormat(load_memory_variables(db[message_history].chat), h)
    ELSE ChatPromptFormat(h)

\* A chain that saves the exchange whether or not it was given a memory.
SaveExchangeAlways(ch, db, h, a) ==
    [db EXCEPT ![HistoryUrl].chat = save_context(@, h, a)]

\* What chat.predict leaves in Redis besides the cache: with memory, the
\* exchange is appended to the session's history.
SaveExchange(ch, db, h, a) ==
    IF ch.memory
    THEN [db EXCEPT ![message_history].chat = save_context(@, h, a)]
    ELSE db

\* reply = chat.predict(human_input="...")
Predict(c) ==
    /\ Cells[c].kind = "predict"
    /\ Run(c, TRUE)
    /\ LET h == Cells[c].arg
           p == ChatPrompt(chat, store, h)
       IN  \E o \in Generate(store, llm_cache, chat.llm, p, llmCalls + 1) :
              /\ reply' = o.answer
              /\ store' = SaveExchange(chat, o.db, h, o.answer)
              /\ turns' = IF chat.memory
                          THEN Append(turns, [human |-> h, ai |-> o.answer])
                          ELSE turns
              /\ llmCalls' = IF o.called THEN llmCalls + 1 ELSE llmCalls
              /\ genCalls' = genCalls + 1
              /\ last' = [op |-> "predict", prompt |-> p, retrieved |-> <<>>,
                          called |-> o.called, answer |-> o.answer]
              /\ sent' = IF chat.memory THEN sent
                          ELSE sent \cup {[n |-> genCalls + 1, human_input |-> h, prompt |-> p]}
    /\ UNCHANGED <<environment, preparation, answering, llm, llm_cache,
                   message_history, chat, answered, phase>>

\* The cells of each kind.
CellsOf ==
    [kind \in {Cells[c].kind : c \in 1..NCells} |->
        {c \in 1..NCells : Cells[c].kind = kind}]

Next ==
    \/ \E c \in CellsOf["load"] : LoadDocuments(c)
    \/ \E c \in CellsOf["split"] : SplitDocuments(c)
    \/ \E c \in CellsOf["embedding"] : CreateEmbedding(c)
    \/ \E c \in CellsOf["store"] : FromDocuments(c)
    \/ \E c \in CellsOf["question"] : SetQuestion(c)
    \/ \E c \in CellsOf["search"] : SimilaritySearch(c)
    \/ \E c \in CellsOf["mmr"] : MmrSearch(c)
    \/ \E c \in CellsOf["template"] : DefineTemplate(c)
    \/ \E c \in CellsOf["makeqa"] : MakeQA(c)
    \/ \E c \in CellsOf["qa"] : QaCall(c)
    \/ \E c \in CellsOf["cache"] : EnableCache(c)
    \/ \E c \in CellsOf["nocache"] : ClearCache(c)
    \/ \E c \in CellsOf["chat"] : MakeChat(c)
    \/ \E c \in CellsOf["predict"] : Predict(c)
    \/ \E c \in CellsOf["memorychat"] : MakeMemoryChat(c)

Spec == Init /\ [][Next]_vars

-----------------------------------------------------------------------------
(* Properties.                                                             *)

\* A step that is a call of qa / of chat.predict.
QaStep == genCalls' = genCalls + 1 /\ last'.op = "qa"
PredictStep == genCalls' = genCalls + 1 /\ last'.op = "predict"

\* The entries of the enabled cache within the threshold of prompt p.
CacheNear(p) ==
    {e \in store[llm_cache].cache : PromptDist(e.prompt, p) <= ScoreThreshold}

\* C1: while the semantic cache is enabled, a qa call whose prompt is within
\* distance 0.1 of a cache entry returns a stored answer without a request
\* to the remote LLM; any other qa call makes exactly one request and stores
\* the prompt with the answer in the cache.
C1_SemanticCache ==
    [][ (QaStep /\ llm_cache # NoCache) =>
          IF CacheNear(last'.prompt) # {}
          THEN /\ llmCalls' = llmCalls
               /\ result'.result \in {e.answer : e \in CacheNear(last'.prompt)}
               /\ store' = store
          ELSE /\ llmCalls' = llmCalls + 1
               /\ result'.result = llmCalls'
               /\ store'[llm_cache].cache =
                     store[llm_cache].cache \cup
                       {[llm |-> qa.llm, prompt |-> last'.prompt, answer |-> result'.result]}
      ]_vars

\* The "coordinate" question was answered from the entry of the "point"
\* question: a hit on an entry that is near but not equal.
C1_Witness ==
    /\ llm_cache # NoCache
    /\ last.op = "qa"
    /\ ~last.called
    /\ last.prompt.question = QCoordinate
    /\ \E e \in store[llm_cache].cache :
          /\ e.prompt.question = QPoint
          /\ e.answer = result.result
          /\ PromptDist(e.prompt, last.prompt) = ScoreThreshold
    /\ \A e \in store[llm_cache].cache : e.prompt # last.prompt

\* The cell that assigns langchain.llm_cache.
CacheCell == CHOOSE c \in 1..NCells : Cells[c].kind = "cache"

\* C2 as stated: once the semantic-cache cell has run, a qa call for a
\* question that qa has answered at any earlier point makes no request to
\* the remote LLM.
C2_AnsweredBefore ==
    [][ (QaStep /\ pc > CacheCell /\ \E a \in answered : a.question = question)
          => llmCalls' = llmCalls ]_vars

\* C2 amended: a qa call made while the semantic cache is enabled, for a
\* question that qa has answered while the cache was enabled and with the
\* index as it is now, makes no request to the remote LLM.
C2_AnsweredWhileCached ==
    [][ ( /\ QaStep
          /\ llm_cache # NoCache
          /\ \E a \in answered :
                /\ a.question = question
                /\ a.cached
                /\ a.indexed = Len(store[qa.retriever].index) )
          => (llmCalls' = llmCalls /\ ~last'.called /\ store' = store) ]_vars

\* A question first answered by the remote LLM under the cache was asked
\* again and answered from the cache.
C2_Witness ==
    /\ llm_cache # NoCache
    /\ last.op = "qa"
    /\ ~last.called
    /\ \E a, b \in answered :
          /\ a.n < b.n
          /\ b.n = genCalls
          /\ a.question = b.question
          /\ a.cached /\ a.called
          /\ b.cached /\ ~b.called
          /\ a.indexed = b.indexed

\* The messages of the exchanges ts, oldest first: input, reply, input, ...
Exchanges(ts) ==
    [i \in 1..(2 * Len(ts)) |->
        IF i % 2 = 1 THEN HumanMessage(ts[(i + 1) \div 2].human)
                     ELSE AIMessage(ts[i \div 2].ai)]

\* C3: in the memory chat, the history in the prompt of the n-th predict
\* call after the setup cell is the n-1 earlier exchanges in call order
\* (empty for n = 1), and the stored history has 2*n messages after it.
C3_History ==
    chat.memory =>
      /\ Len(store[message_history].chat) = 2 * Len(turns)
      /\ (turns # <<>> /\ last.op = "predict") =>
            /\ last.prompt.human_input = turns[Len(turns)].human
            /\ last.prompt.history = Exchanges(SubSeq(turns, 1, Len(turns) - 1))

\* The fifth call of the memory chat has been made, with the four earlier
\* exchanges in its prompt.
C3_Witness ==
    /\ chat.memory
    /\ Len(turns) = 5
    /\ last.op = "predict"
    /\ Len(last.prompt.history) = 8

\* C4: in the chat without memory, the prompt of a predict call is the same
\* as the prompt of every earlier call with the same human_input, and the
\* call leaves every stored chat history as it was.
C4_NoMemory ==
    [][ (PredictStep /\ ~chat.memory) =>
          /\ \A a \in sent :
                a.human_input = last'.prompt.human_input => a.prompt = last'.prompt
          /\ \A u \in Urls : store'[u].chat = store[u].chat ]_vars

\* The same input has been given twice to the chat without memory, the
\* second time after other calls.
C4_Witness ==
    /\ ~chat.memory
    /\ last.op = "predict"
    /\ \E a, b \in sent :
          /\ a.n < b.n
          /\ b.n = genCalls
          /\ a.human_input = b.human_input

\* C5: the vector index, the semantic cache and the chat message history
\* are in one data store, the one REDIS_URL names.
C5_OneStore ==
    /\ vectordb # Undefined => vectordb = REDIS_URL
    /\ llm_cache # NoCache => llm_cache = REDIS_URL
    /\ message_history # Undefined => message_history = REDIS_URL

IsPrefix(s, t) == Len(s) <= Len(t) /\ \A i \in 1..Len(s) : s[i] = t[i]

Pipeline == <<"load", "split", "embed", "store", "query", "generate">>

\* C6: in a run from top to bottom the pipeline steps first happen in the
\* order load, split, embed, store, query, generate, and no search or qa
\* call is made before every split is in the index; every chunk written to
\* the index is a chunk of a loaded document; a qa call that asks the LLM
\* has retrieved its context from the index.
C6_Pipeline ==
    /\ reruns = 0 =>
          /\ IsPrefix(phase, Pipeline)
          /\ "query" \in Range(phase) =>
                /\ vectordb # Undefined
                /\ Range(splits) \subseteq Range(store[vectordb].index)
                /\ Range(splits) = written
    /\ \A ch \in written :
          \E d \in loaded : d.source = ch.source /\ d.content = ch.content
    /\ (last.op = "qa" /\ last.called) =>
          /\ "query" \in Range(phase)
          /\ last.prompt.context = last.retrieved
          /\ last.retrieved # <<>>
          /\ Range(last.retrieved) \subseteq Range(store[qa.retriever].index)

\* The run from top to bottom has reached its first generate step.
C6_Witness ==
    /\ reruns = 0
    /\ phase = Pipeline
    /\ last.op = "qa"
    /\ last.called
    /\ Len(last.retrieved) = RetrieverK

\* C7: no body of an error response is in the index as if it were the
\* document.
C7_NoErrorBodyIndexed ==
    \A ch \in written : ch.content # ErrorBody

\* C8: every prompt of the qa chain is QA_TEMPLATE with the retrieved chunks
\* as context and the user's question.
C8_QaTemplate ==
    last.op = "qa" =>
        last.prompt = QaChainPromptFormat(last.retrieved, last.prompt.question)

====
